---------------------------- MODULE Spec2Model ----------------------------
(***************************************************************************)
(* Dreamwidth month-by-month exporter.                                     *)
(*                                                                         *)
(*   dw-batch-export.py  BatchDriver: walks a month range, skips months    *)
(*                       already on disk, runs the exporter per month,    *)
(*                       counts consecutive failures, keeps a ledger.      *)
(*   dw-downloader.py    ExportSession: GET the export page, pick the      *)
(*                       form, build the payload, POST, classify, write.   *)
(*                                                                         *)
(* Three specifications share the module:                                  *)
(*   Spec        the batch driver, the exporter seen as a subprocess       *)
(*   SpecExport  one run of the exporter against a nondeterministic server *)
(*   SpecForm    the form heuristics applied to bounded sets of documents  *)
(***************************************************************************)
EXTENDS Integers, Sequences, FiniteSets, TLC

(***************************************************************************)
(* Bounds of the model.                                                    *)
(***************************************************************************)
\* longest month range the batch driver is run over
MaxSpan == 10
\* most forms in a document of several forms
MaxForms == 3
\* most selects in the form of a one-form document
MaxSelects == 2
\* longest month range of the batch driver run with the exporter
MaxPipelineSpan == 3
\* most runs of the batch driver over one output directory
MaxRuns == 2
\* longest month range of the repeated runs
MaxRerunSpan == 6

(***************************************************************************)
(* Program constants.                                                      *)
(***************************************************************************)
\* dw-batch-export.py:163  if failures >= 5
FailureThreshold == 5
\* dw-batch-export.py:69   --start-year default
StartYear == 2006
\* dw-batch-export.py:40   if m > 12
MonthsPerYear == 12

(***************************************************************************)
(* Strings.  Python str operations, computed character by character.       *)
(***************************************************************************)
UpperAlpha == "ABCDEFGHIJKLMNOPQRSTUVWXYZ"
LowerAlpha == "abcdefghijklmnopqrstuvwxyz"
DigitChars == "0123456789"

CharAt(s, i) == SubSeq(s, i, i)

\* the lower-case letter of each upper-case letter
LowerOf ==
    [c \in { CharAt(UpperAlpha, i) : i \in 1..Len(UpperAlpha) } |->
        CharAt(LowerAlpha, CHOOSE i \in 1..Len(UpperAlpha) : CharAt(UpperAlpha, i) = c)]

\* str.lower() on one character
LowerChar(c) == IF c \in DOMAIN LowerOf THEN LowerOf[c] ELSE c

RECURSIVE Lower(_)
\* str.lower()
Lower(s) ==
    IF Len(s) = 0 THEN ""
    ELSE LowerChar(CharAt(s, 1)) \o Lower(SubSeq(s, 2, Len(s)))

\* sub in s
Contains(sub, s) ==
    \E i \in 1..(Len(s) - Len(sub) + 1) : SubSeq(s, i, i + Len(sub) - 1) = sub

DigitSet == { CharAt(DigitChars, d) : d \in 1..Len(DigitChars) }

\* s.isdigit()
IsDigit(s) ==
    /\ Len(s) > 0
    /\ \A i \in 1..Len(s) : CharAt(s, i) \in DigitSet

DigitValue(c) == (CHOOSE d \in 1..Len(DigitChars) : CharAt(DigitChars, d) = c) - 1

RECURSIVE ToInt(_)
\* int(s) of a digit string
ToInt(s) ==
    IF Len(s) = 0 THEN 0
    ELSE 10 * ToInt(SubSeq(s, 1, Len(s) - 1)) + DigitValue(CharAt(s, Len(s)))

RECURSIVE IntToStr(_)
\* str(n), n >= 0
IntToStr(n) ==
    IF n < 10 THEN CharAt(DigitChars, n + 1)
    ELSE IntToStr(n \div 10) \o CharAt(DigitChars, (n % 10) + 1)

\* str(n) of any integer, as the f-string formats exit_code
StrOfInt(n) == IF n < 0 THEN "-" \o IntToStr(-n) ELSE IntToStr(n)

RECURSIVE ZeroPad(_, _)
\* format(n, "0<w>d") applied to the digits s
ZeroPad(s, w) == IF Len(s) >= w THEN s ELSE ZeroPad("0" \o s, w)

IsSpace(c) == c \in {" ", "\t", "\n"}

RECURSIVE LStrip(_)
\* str.lstrip()
LStrip(s) ==
    IF Len(s) > 0 /\ IsSpace(CharAt(s, 1)) THEN LStrip(SubSeq(s, 2, Len(s))) ELSE s

RECURSIVE RStrip(_)
RStrip(s) ==
    IF Len(s) > 0 /\ IsSpace(CharAt(s, Len(s))) THEN RStrip(SubSeq(s, 1, Len(s) - 1)) ELSE s

\* str.strip()
Strip(s) == RStrip(LStrip(s))

VARIABLES
    \* ---- dw-batch-export.py main ----
    bpc,        \* "loop" | "done" | "aborted" ("idle": the driver is not run)
    range,      \* [start |-> <<y, m>>, end |-> <<y, m>>]   the parsed arguments
    cur,        \* <<y, m>>: the month_range generator's (y, m)
    failures,   \* consecutive-failure counter
    outfiles,   \* months whose output artifact exists in outdir
    ledger,     \* failed_months.csv, a sequence of lines
    bexit,      \* exit code of the batch process, -1 while it runs
    visited,    \* history: months the loop body was entered for, in order
    calls,      \* history: exporter invocations [ym, existed, rc, ok]
    pauses,     \* history: polite_pause reasons, in order
    failing,    \* environment: how the exporter fails during this run
    runs,       \* the number of times the driver was started on this directory
    outfiles0,  \* history: outfiles when this run started
    ledger0,    \* history: ledger when this run started
    written,    \* history: the months the exporter wrote, over all runs, in order
    \* ---- dw-downloader.py main ----
    dpc,        \* position in main ("idle": the exporter is not run)
    dargs,      \* [year, month, cookieFile, cookieHeader]
    method,     \* request_with_retries: the method of the request in progress
    attempt,    \* request_with_retries: the loop variable
    reqlog,     \* history: what each attempt of the request in progress got
    backoffs,   \* history: the attempts of that request followed by a backoff sleep
    jitters,    \* history: jitter_sleep calls since that request started
    r,          \* response of the GET
    pr,         \* response of the POST
    form,       \* the form chosen by choose_export_form
    payload,    \* the POST payload
    prePayload, \* history: the payload handed to force_output_format_xml
    fields,     \* <<year_field, month_field>>
    changed,    \* what force_output_format_xml returned
    artifact,   \* content of the month's output path ("absent" if none)
    artifact0,  \* history: its content when the exporter started
    debug,      \* stages whose debug artifacts were written
    outcome,    \* how the run ended
    dexit       \* exit code of the exporter process, -1 while it runs

runVars == <<runs, outfiles0, ledger0>>

batchVars ==
    <<bpc, range, cur, failures, outfiles, ledger, bexit, visited, calls, pauses, failing,
      runVars, written>>

requestVars == <<method, attempt, reqlog, backoffs, jitters>>

formVars == <<form, payload, prePayload, fields, changed>>

exportVars ==
    <<dpc, dargs, requestVars, r, pr, formVars, artifact, artifact0, debug, outcome, dexit>>

vars == <<batchVars, exportVars>>

(***************************************************************************)
(* dw-batch-export.py                                                      *)
(***************************************************************************)
\* Python's tuple comparison (y, m) <= (end_year, end_month)
LeqYM(a, b) == a[1] < b[1] \/ (a[1] = b[1] /\ a[2] <= b[2])

LtYM(a, b) == LeqYM(a, b) /\ a # b

\* month_range: the step after "yield y, m"
NextMonth(ym) ==
    IF ym[2] + 1 > MonthsPerYear THEN <<ym[1] + 1, 1>> ELSE <<ym[1], ym[2] + 1>>

\* month_range: the while condition
InRange(ym, rg) == LeqYM(ym, rg.end)

\* variant: the run resumes after the newest month on disk
SkipBelowNewest(files, ym) == \E f \in files : LeqYM(ym, f)

\* variant: the existence check left out
NeverSkip(files, ym) == FALSE

\* main: if outfile.exists(): continue
ShouldSkip(files, ym) == ym \in files

\* variant: the exit code alone decides
SuccessByExitCode(rc, exists) == rc = 0

\* main: if result.returncode == 0 and outfile.exists()
IsSuccess(rc, exists) == rc = 0 /\ exists

\* variant: a success does not reset the counter
FailuresNoReset(f, success) == IF success THEN f ELSE f + 1

\* main: failures = 0 on the success path, failures += 1 on the failure path
FailuresAfter(f, success) == IF success THEN 0 ELSE f + 1

\* variant: the threshold test left out
BreakerNeverTrips(f) == FALSE

\* main: if failures >= 5: return 3
BreakerTrips(f) == f >= FailureThreshold

\* datetime.utcnow().isoformat(timespec="seconds") + "Z": the clock is the
\* environment's; one reading stands for it
Timestamps == {"2026-01-01T00:00:00Z"}

\* variant: the month written before the year
LedgerLineMonthFirst(ym, ts, rc) ==
    ZeroPad(IntToStr(ym[2]), 2) \o "," \o ZeroPad(IntToStr(ym[1]), 4) \o ","
        \o ts \o "," \o StrOfInt(rc) \o "\n"

\* record_failure: f"{year:04d},{month:02d},{timestamp},{exit_code}\n"
LedgerLine(ym, ts, rc) ==
    ZeroPad(IntToStr(ym[1]), 4) \o "," \o ZeroPad(IntToStr(ym[2]), 2) \o ","
        \o ts \o "," \o StrOfInt(rc) \o "\n"

\* What run(cmd) can come back with: the exporter's exit code, whether the
\* month's artifact was written by it, and how the exporter ended (see Exit
\* below).  The exporter writes the artifact only on its way to "return 0";
\* 0 without the artifact is the case main guards against with
\* "and outfile.exists()".  main tests the exit code against 0 only: 3 stands
\* for the non-zero codes here, and SpecPipeline has the exporter's own.
ExporterSuccess == [rc |-> 0, wrote |-> TRUE, why |-> "Success"]

ExporterFailures ==
    { [rc |-> 3, wrote |-> FALSE, why |-> "NotAuthenticated"],
      [rc |-> 0, wrote |-> FALSE, why |-> "NoArtifact"] }

\* variant: the ledger opened with "w"
LedgerTruncated(l, ok, line) == IF ok THEN l ELSE <<line>>

\* main, lines 128-150, and record_failure, lines 63-64: the failure path
\* appends the line to the file opened with "a"; the success path leaves it
LedgerAfter(l, ok, line) == IF ok THEN l ELSE Append(l, line)

\* the results the exporter can give in a run whose failures are of kind f
ExporterResults(f) == {ExporterSuccess, f}

MonthIndex(ym) == ym[1] * MonthsPerYear + ym[2]

\* the months of the closed range, as a set
RangeMonths(rg) ==
    { ym \in (rg.start[1]..rg.end[1]) \X (1..MonthsPerYear) :
        LeqYM(rg.start, ym) /\ LeqYM(ym, rg.end) }

\* the --start-month values tried: the default (dw-batch-export.py:70) and mid-year
StartMonths == {6, 12}

\* end months within MaxSpan months of the start (one before it: an empty range)
EndsFor(start) ==
    { e \in (StartYear..(StartYear + 2)) \X (1..MonthsPerYear) :
        /\ MonthIndex(e) - MonthIndex(start) >= -1
        /\ MonthIndex(e) - MonthIndex(start) < MaxSpan }

BatchRanges ==
    UNION { { [start |-> <<StartYear, sm>>, end |-> e] : e \in EndsFor(<<StartYear, sm>>) } :
            sm \in StartMonths }

\* the output directory before the run: empty, or one month already exported
ExistingSets(rg) == {{}} \cup { {ym} : ym \in RangeMonths(rg) }

BatchInit ==
    /\ range \in BatchRanges
    /\ cur = range.start
    /\ bpc = "loop"
    /\ failures = 0
    /\ outfiles \in ExistingSets(range)
    /\ ledger = <<>>
    /\ bexit = -1
    /\ visited = <<>>
    /\ calls = <<>>
    /\ pauses = <<>>
    /\ failing \in ExporterFailures
    /\ runs = 1
    /\ outfiles0 = outfiles
    /\ ledger0 = ledger
    /\ written = <<>>

\* one pass of the for loop that ends in "continue" at line 110
SkipMonth ==
    /\ bpc = "loop"
    /\ InRange(cur, range)
    /\ ShouldSkip(outfiles, cur)
    /\ visited' = Append(visited, cur)
    /\ cur' = NextMonth(cur)
    /\ UNCHANGED <<bpc, range, failures, outfiles, ledger, bexit, calls, pauses, failing,
                   runVars, written>>
    /\ UNCHANGED exportVars

\* main, lines 128-165: what follows run(cmd), for its result res
MonthOutcome(res, ts) ==
    /\ LET files == IF res.wrote THEN outfiles \cup {cur} ELSE outfiles
           ok == IsSuccess(res.rc, cur \in files)
           f == FailuresAfter(failures, ok)
       IN /\ outfiles' = files
          /\ visited' = Append(visited, cur)
          /\ written' = IF res.wrote THEN Append(written, cur) ELSE written
          /\ calls' = Append(calls, [ym |-> cur, existed |-> cur \in outfiles,
                                      rc |-> res.rc, ok |-> ok, why |-> res.why,
                                      ts |-> ts, before |-> failures])
          /\ failures' = f
          /\ ledger' = LedgerAfter(ledger, ok, LedgerLine(cur, ts, res.rc))
          /\ pauses' = Append(pauses, IF ok THEN "normal" ELSE "grumpy")
          /\ IF ~ok /\ BreakerTrips(f)
             THEN /\ bpc' = "aborted"
                  /\ bexit' = 3
                  /\ cur' = cur
             ELSE /\ cur' = NextMonth(cur)
                  /\ UNCHANGED <<bpc, bexit>>
    /\ UNCHANGED <<range, failing, runVars>>

\* one pass of the for loop that runs the exporter (lines 112-165)
ExportMonth(res, ts) ==
    /\ bpc = "loop"
    /\ InRange(cur, range)
    /\ ~ShouldSkip(outfiles, cur)
    /\ MonthOutcome(res, ts)
    /\ UNCHANGED exportVars

\* the generator is exhausted: lines 167-169
FinishBatch ==
    /\ bpc = "loop"
    /\ ~InRange(cur, range)
    /\ bpc' = "done"
    /\ bexit' = 0
    /\ UNCHANGED <<range, cur, failures, outfiles, ledger, visited, calls, pauses, failing,
                   runVars, written>>
    /\ UNCHANGED exportVars

\* the driver is started again with the same arguments, over the output
\* directory and the ledger the earlier runs left: main up to line 97
Rerun ==
    /\ bpc \in {"done", "aborted"}
    /\ runs < MaxRuns
    /\ runs' = runs + 1
    /\ bpc' = "loop"
    /\ cur' = range.start
    /\ failures' = 0
    /\ bexit' = -1
    /\ visited' = <<>>
    /\ calls' = <<>>
    /\ pauses' = <<>>
    /\ outfiles0' = outfiles
    /\ ledger0' = ledger
    /\ UNCHANGED <<range, outfiles, ledger, failing, written>>
    /\ UNCHANGED exportVars

BatchNext ==
    \/ SkipMonth
    \/ \E res \in ExporterResults(failing), ts \in Timestamps : ExportMonth(res, ts)
    \/ FinishBatch

\* record_failure called by itself, once, for the month cur and the exit code
\* failing.rc, at the clock reading ts
RecordFailure(ts) ==
    /\ bpc = "record"
    /\ ledger' = Append(ledger, LedgerLine(cur, ts, failing.rc))
    /\ calls' = Append(calls, [ym |-> cur, existed |-> FALSE, rc |-> failing.rc,
                                ok |-> FALSE, why |-> failing.why, ts |-> ts,
                                before |-> failures])
    /\ bpc' = "recorded"
    /\ UNCHANGED <<range, cur, failures, outfiles, bexit, visited, pauses, failing,
                   runVars, written>>
    /\ UNCHANGED exportVars

\* the driver is not run
BatchIdle ==
    /\ bpc = "idle"
    /\ range = [start |-> <<StartYear, 12>>, end |-> <<StartYear, 12>>]
    /\ cur = <<StartYear, 12>>
    /\ failures = 0
    /\ outfiles = {}
    /\ ledger = <<>>
    /\ bexit = -1
    /\ visited = <<>>
    /\ calls = <<>>
    /\ pauses = <<>>
    /\ failing = [rc |-> 3, wrote |-> FALSE, why |-> "NotAuthenticated"]
    /\ runs = 1
    /\ outfiles0 = {}
    /\ ledger0 = <<>>
    /\ written = <<>>

(***************************************************************************)
(* dw-downloader.py: the form heuristics.                                  *)
(*                                                                         *)
(* A document is the sequence of its <form> elements in document order.    *)
(*   form     [text, inputs, selects, textareas]                           *)
(*   input    [name, type, value, checked]      "" = attribute absent      *)
(*   select   [name, options]                                              *)
(*   option   [hasValue, value, text, selected]                            *)
(*   textarea [name, text]                                                 *)
(* A payload is a function from field names to strings.                    *)
(***************************************************************************)
\* dw-downloader.py:160,162  if yearish >= 5 / if monthish >= 5
MinNumericOptions == 5
\* dw-downloader.py:158  len(o) == 4
YearDigits == 4

\* data[name] = value
Put(p, k, v) == [x \in (DOMAIN p) \cup {k} |-> IF x = k THEN v ELSE p[x]]

EmptyPayload == [x \in {} |-> ""]

\* o.get_text(strip=True)
OptionLabel(o) == Strip(o.text)

RECURSIVE JoinTexts(_)
\* get_text(" ", strip=True): the stripped, non-empty text nodes joined by " "
JoinTexts(ts) ==
    IF Len(ts) = 0 THEN ""
    ELSE LET h == Strip(ts[1])
             t == JoinTexts(Tail(ts))
         IN IF h = "" THEN t ELSE IF t = "" THEN h ELSE h \o " " \o t

RECURSIVE OptionTexts(_)
\* the text nodes of the options of a sequence of selects, in document order
OptionTexts(sels) ==
    IF Len(sels) = 0 THEN <<>>
    ELSE [i \in 1..Len(sels[1].options) |-> sels[1].options[i].text]
             \o OptionTexts(Tail(sels))

\* f.get_text(" ", strip=True): the form's own text, its options' and its
\* textareas' text
FormText(f) ==
    JoinTexts(<<f.text>> \o OptionTexts(f.selects)
                  \o [i \in 1..Len(f.textareas) |-> f.textareas[i].text])

\* f.find("select", {"name": "year"}) or f.find("select", {"name": "month"})
HasYearMonthSelect(f) ==
    \E i \in 1..Len(f.selects) : f.selects[i].name \in {"year", "month"}

\* "export" in (f.get_text(" ", strip=True) or "").lower()
TextHasExport(f) == Contains("export", Lower(FormText(f)))

RECURSIVE ScanForms(_, _)
\* choose_export_form: the for loop over forms, then "return forms[0]"
ScanForms(forms, i) ==
    IF i > Len(forms) THEN 1
    ELSE IF HasYearMonthSelect(forms[i]) THEN i
    ELSE IF TextHasExport(forms[i]) THEN i
    ELSE ScanForms(forms, i + 1)

\* choose_export_form: the index of the form returned, 0 for the RuntimeError
\* raised when the document has no form
ChooseExportForm(forms) == IF Len(forms) = 0 THEN 0 ELSE ScanForms(forms, 1)

\* build_form_payload: one <input>
PayloadOfInput(data, inp) ==
    LET itype == Lower(IF inp.type = "" THEN "text" ELSE inp.type)
    IN IF inp.name = "" THEN data
       ELSE IF itype \in {"submit", "button", "image", "file"} THEN data
       ELSE IF itype \in {"checkbox", "radio"}
            THEN IF inp.checked
                 THEN Put(data, inp.name, IF inp.value # "" THEN inp.value ELSE "1")
                 ELSE data
       ELSE Put(data, inp.name, inp.value)

\* sel.find("option", selected=True), else sel.find("option"): its index, 0 if none
DefaultOption(sel) ==
    IF \E i \in 1..Len(sel.options) : sel.options[i].selected
    THEN CHOOSE i \in 1..Len(sel.options) :
            /\ sel.options[i].selected
            /\ \A j \in 1..(i - 1) : ~sel.options[j].selected
    ELSE IF Len(sel.options) > 0 THEN 1 ELSE 0

\* build_form_payload: one <select>
PayloadOfSelect(data, sel) ==
    IF sel.name = "" THEN data
    ELSE IF DefaultOption(sel) = 0 THEN data
    ELSE LET opt == sel.options[DefaultOption(sel)]
         IN Put(data, sel.name, IF opt.hasValue THEN opt.value ELSE OptionLabel(opt))

\* build_form_payload: one <textarea>
PayloadOfTextarea(data, ta) ==
    IF ta.name = "" THEN data ELSE Put(data, ta.name, ta.text)

RECURSIVE FoldInputs(_, _)
FoldInputs(data, inps) ==
    IF Len(inps) = 0 THEN data
    ELSE FoldInputs(PayloadOfInput(data, inps[1]), Tail(inps))

RECURSIVE FoldSelects(_, _)
FoldSelects(data, sels) ==
    IF Len(sels) = 0 THEN data
    ELSE FoldSelects(PayloadOfSelect(data, sels[1]), Tail(sels))

RECURSIVE FoldTextareas(_, _)
FoldTextareas(data, tas) ==
    IF Len(tas) = 0 THEN data
    ELSE FoldTextareas(PayloadOfTextarea(data, tas[1]), Tail(tas))

\* build_form_payload
BuildFormPayload(f) ==
    FoldTextareas(FoldSelects(FoldInputs(EmptyPayload, f.inputs), f.selects), f.textareas)

RECURSIVE CountYearish(_)
\* sum(1 for o in opts if o.isdigit() and len(o) == 4)
CountYearish(opts) ==
    IF Len(opts) = 0 THEN 0
    ELSE (IF IsDigit(OptionLabel(opts[1])) /\ Len(OptionLabel(opts[1])) = YearDigits
          THEN 1 ELSE 0) + CountYearish(Tail(opts))

RECURSIVE CountMonthish(_)
\* sum(1 for o in opts if o.isdigit() and 1 <= int(o) <= 12)
CountMonthish(opts) ==
    IF Len(opts) = 0 THEN 0
    ELSE (IF /\ IsDigit(OptionLabel(opts[1]))
             /\ 1 <= ToInt(OptionLabel(opts[1]))
             /\ ToInt(OptionLabel(opts[1])) <= MonthsPerYear
          THEN 1 ELSE 0) + CountMonthish(Tail(opts))

\* variant: more than 5 year-like options asked for
QualifiesYearStrict(sel) == CountYearish(sel.options) > MinNumericOptions

\* if yearish >= 5
QualifiesYear(sel) == CountYearish(sel.options) >= MinNumericOptions

\* if monthish >= 5
QualifiesMonth(sel) == CountMonthish(sel.options) >= MinNumericOptions

RECURSIVE GuessScan(_, _)
\* guess_year_month_field_names: the loop over the selects; g = <<year_field, month_field>>
GuessScan(g, sels) ==
    IF Len(sels) = 0 THEN g
    ELSE IF sels[1].name = "" THEN GuessScan(g, Tail(sels))
    ELSE GuessScan(<<IF QualifiesYear(sels[1]) THEN sels[1].name ELSE g[1],
                     IF QualifiesMonth(sels[1]) THEN sels[1].name ELSE g[2]>>,
                   Tail(sels))

\* guess_year_month_field_names
GuessYearMonthFieldNames(f) == GuessScan(<<"year", "month">>, f.selects)

\* "xml" in (value or "").lower() or "xml" in (label or "").lower()
OptionIsXml(o) ==
    Contains("xml", Lower(o.value)) \/ Contains("xml", Lower(OptionLabel(o)))

\* variant: the label is submitted instead of the value
LabelOnly(o) == OptionLabel(o)

\* payload[name] = value if value != "" else label
ValueOrLabel(o) == IF o.value # "" THEN o.value ELSE OptionLabel(o)

RECURSIVE FirstXmlOption(_, _)
\* for value, label in opts: the index of the first xml-like option, 0 if none
FirstXmlOption(opts, j) ==
    IF j > Len(opts) THEN 0
    ELSE IF OptionIsXml(opts[j]) THEN j
    ELSE FirstXmlOption(opts, j + 1)

RECURSIVE ScanSelectsForXml(_, _)
\* force_output_format_xml: the loop over the selects; the index of the select
\* that decides, 0 if none does
ScanSelectsForXml(sels, i) ==
    IF i > Len(sels) THEN 0
    ELSE IF sels[i].name = "" THEN ScanSelectsForXml(sels, i + 1)
    ELSE IF FirstXmlOption(sels[i].options, 1) # 0 THEN i
    ELSE ScanSelectsForXml(sels, i + 1)

\* form.find_all("input", {"type": "radio"}) with a name
RadioInputs(f) ==
    SelectSeq(f.inputs, LAMBDA inp : inp.type = "radio" /\ inp.name # "")

\* variant: any radio value is taken for the xml one
AnyRadioValue(v) == TRUE

\* "xml" in (value or "").lower()
RadioIsXml(v) == Contains("xml", Lower(v))

RECURSIVE GroupNames(_, _)
\* the keys of radio_groups, in insertion order
GroupNames(radios, seen) ==
    IF Len(radios) = 0 THEN seen
    ELSE IF \E k \in 1..Len(seen) : seen[k] = radios[1].name
         THEN GroupNames(Tail(radios), seen)
         ELSE GroupNames(Tail(radios), Append(seen, radios[1].name))

RECURSIVE ScanRadioGroups(_, _)
\* for name, opts in radio_groups.items(): for value, _ in opts: the first
\* xml-like <<name, value>>, <<>> if none
ScanRadioGroups(radios, names) ==
    IF Len(names) = 0 THEN <<>>
    ELSE LET grp == SelectSeq(radios, LAMBDA inp : inp.name = names[1])
             hit == SelectSeq(grp, LAMBDA inp : RadioIsXml(inp.value))
         IN IF Len(hit) > 0 THEN <<names[1], hit[1].value>>
            ELSE ScanRadioGroups(radios, Tail(names))

\* force_output_format_xml: [changed, payload]
ForceOutputFormatXml(f, data) ==
    LET i == ScanSelectsForXml(f.selects, 1)
        radio == ScanRadioGroups(RadioInputs(f), GroupNames(RadioInputs(f), <<>>))
    IN IF i # 0
       THEN [changed |-> TRUE,
             payload |-> Put(data, f.selects[i].name,
                             ValueOrLabel(f.selects[i].options[
                                 FirstXmlOption(f.selects[i].options, 1)]))]
       ELSE IF radio # <<>>
       THEN [changed |-> TRUE, payload |-> Put(data, radio[1], radio[2])]
       ELSE [changed |-> FALSE, payload |-> data]

(***************************************************************************)
(* dw-downloader.py: request_with_retries and main.                        *)
(*                                                                         *)
(* A response is [status, url, ct, body, doc]: the status code, the final  *)
(* URL, the Content-Type header, the text of a POST response, the forms of *)
(* a GET response.  Status 0 stands for requests.RequestException.         *)
(***************************************************************************)
\* dw-downloader.py:25  max_retries: int = 6
MaxRetries == 6
\* dw-downloader.py:227  text[:5000]
HeadChars == 5000

NoResponse == [status |-> -1, url |-> "", ct |-> "", body |-> "", doc |-> <<>>]

RequestException == [status |-> 0, url |-> "", ct |-> "", body |-> "", doc |-> <<>>]

NoForm == [text |-> "", inputs |-> <<>>, selects |-> <<>>, textareas |-> <<>>]

\* variant: range(1, cfg.max_retries)
OneAttemptLess(a) == a < MaxRetries

\* for attempt in range(1, cfg.max_retries + 1)
CanAttempt(a) == a <= MaxRetries

\* variant: no status retried
RetryableNever(status) == FALSE

\* variant: 404 retried too
RetryableAlso404(status) == status \in {404, 429, 500, 502, 503, 504}

\* if r.status_code in (429, 500, 502, 503, 504)
IsRetryable(status) == status \in {429, 500, 502, 503, 504}

\* variant: only "login" looked for, in lower case as written
AuthenticatedLoginOnly(url) == ~Contains("login", url)

\* "returnto=/export" in r.url or "login" in r.url.lower(), negated
IsAuthenticated(url) ==
    ~(Contains("returnto=/export", url) \/ Contains("login", Lower(url)))

\* variant: the status check left out
AnyStatusGood(status) == FALSE

\* if r.status_code != 200
IsBadStatus(status) == status # 200

XmlMarkers == {"<?xml", "<livejournal", "<lj:livejournal", "<event", "<entry"}

\* looks_like_xml_export
LooksLikeXmlExport(resp) ==
    \/ Contains("xml", Lower(resp.ct))
    \/ \E m \in XmlMarkers :
          Contains(m, Lower(SubSeq(LStrip(resp.body), 1,
                                   IF Len(LStrip(resp.body)) < HeadChars
                                   THEN Len(LStrip(resp.body)) ELSE HeadChars)))

\* main: if not (1 <= args.month <= 12)
MonthArgOk(m) == 1 <= m /\ m <= MonthsPerYear

\* main: if not args.cookie_file and not args.cookie_header
NoCookieSource(a) == a.cookieFile = "none" /\ ~a.cookieHeader

\* load_netscape_cookie_file raises: FileNotFoundError, or RuntimeError when
\* no line of the file is for the domain
CookieFileRaises(a) == a.cookieFile \in {"missing", "nodomain"}

\* the process ends: sys.exit(main()), or an uncaught exception (exit code 1)
Exit(code, how) ==
    /\ dpc' = "exit"
    /\ dexit' = code
    /\ outcome' = how

\* main, lines 276-304: argument checks and SessionBootstrap
Bootstrap ==
    /\ dpc = "start"
    /\ IF ~MonthArgOk(dargs.month) THEN Exit(2, "ConfigurationError")
       ELSE IF NoCookieSource(dargs) THEN Exit(2, "ConfigurationError")
       ELSE IF dargs.cookieFile # "none" /\ CookieFileRaises(dargs)
       THEN Exit(1, "CookieError")
       ELSE /\ dpc' = "get"
            /\ UNCHANGED <<dexit, outcome>>
    /\ method' = "GET"
    /\ attempt' = 1
    /\ UNCHANGED <<dargs, reqlog, backoffs, jitters, r, pr, formVars,
                   artifact, artifact0, debug>>
    /\ UNCHANGED batchVars

\* request_with_retries, one pass of the for loop (lines 76-90): the server's
\* answer resp is returned, or it is backed off from and the loop goes on
RequestAttempt(resp) ==
    /\ dpc \in {"get", "post"}
    /\ CanAttempt(attempt)
    /\ reqlog' = Append(reqlog, resp)
    /\ IF resp.status = 0 \/ IsRetryable(resp.status)
       THEN /\ backoffs' = Append(backoffs, attempt)
            /\ attempt' = attempt + 1
            /\ UNCHANGED <<dpc, r, pr>>
       ELSE /\ IF dpc = "get"
               THEN r' = resp /\ dpc' = "got" /\ pr' = pr
               ELSE pr' = resp /\ dpc' = "posted" /\ r' = r
            /\ UNCHANGED <<backoffs, attempt>>
    /\ UNCHANGED <<dargs, method, jitters, formVars, artifact, artifact0, debug, outcome, dexit>>
    /\ UNCHANGED batchVars

\* request_with_retries, line 91: the loop is exhausted, RuntimeError, which
\* main does not catch
RequestExhausted ==
    /\ dpc \in {"get", "post"}
    /\ ~CanAttempt(attempt)
    /\ Exit(1, "TransportExhausted")
    /\ UNCHANGED <<dargs, requestVars, r, pr, formVars, artifact, artifact0, debug>>
    /\ UNCHANGED batchVars

\* main, lines 308-317: jitter_sleep, the authentication and status checks
AfterGet ==
    /\ dpc = "got"
    /\ jitters' = jitters + 1
    /\ IF ~IsAuthenticated(r.url)
       THEN /\ debug' = debug \cup {"get_export_redirect"}
            /\ Exit(3, "NotAuthenticated")
       ELSE IF IsBadStatus(r.status)
       THEN /\ debug' = debug \cup {"get_export_badstatus"}
            /\ Exit(3, "BadStatus")
       ELSE /\ dpc' = "parse"
            /\ UNCHANGED <<debug, dexit, outcome>>
    /\ UNCHANGED <<dargs, method, attempt, reqlog, backoffs, r, pr, formVars,
                   artifact, artifact0>>
    /\ UNCHANGED batchVars

\* main, lines 320-321 and 332-334: choose_export_form; its RuntimeError is
\* re-raised after the debug artifacts are written
ChooseForm ==
    /\ dpc = "parse"
    /\ IF ChooseExportForm(r.doc) = 0
       THEN /\ debug' = debug \cup {"get_export_parsefail"}
            /\ Exit(1, "ParseFailure")
            /\ UNCHANGED form
       ELSE /\ form' = r.doc[ChooseExportForm(r.doc)]
            /\ dpc' = "build"
            /\ UNCHANGED <<debug, dexit, outcome>>
    /\ UNCHANGED <<dargs, requestVars, r, pr, payload, prePayload, fields, changed,
                   artifact, artifact0>>
    /\ UNCHANGED batchVars

\* main, line 322
BuildPayload ==
    /\ dpc = "build"
    /\ payload' = BuildFormPayload(form)
    /\ dpc' = "guess"
    /\ UNCHANGED <<dargs, requestVars, r, pr, form, prePayload, fields, changed,
                   artifact, artifact0, debug, outcome, dexit>>
    /\ UNCHANGED batchVars

\* main, line 323
GuessFields ==
    /\ dpc = "guess"
    /\ fields' = GuessYearMonthFieldNames(form)
    /\ dpc' = "override"
    /\ UNCHANGED <<dargs, requestVars, r, pr, form, payload, prePayload, changed,
                   artifact, artifact0, debug, outcome, dexit>>
    /\ UNCHANGED batchVars

\* main, lines 326-327
OverrideYearMonth ==
    /\ dpc = "override"
    /\ payload' = Put(Put(payload, fields[1], IntToStr(dargs.year)),
                      fields[2], IntToStr(dargs.month))
    /\ dpc' = "force"
    /\ UNCHANGED <<dargs, requestVars, r, pr, form, prePayload, fields, changed,
                   artifact, artifact0, debug, outcome, dexit>>
    /\ UNCHANGED batchVars

\* main, lines 330-341: force_output_format_xml, then request_with_retries is
\* entered for the POST
ForceXml ==
    /\ dpc = "force"
    /\ prePayload' = payload
    /\ payload' = ForceOutputFormatXml(form, payload).payload
    /\ changed' = ForceOutputFormatXml(form, payload).changed
    /\ dpc' = "post"
    /\ method' = "POST"
    /\ attempt' = 1
    /\ reqlog' = <<>>
    /\ backoffs' = <<>>
    /\ jitters' = 0
    /\ UNCHANGED <<dargs, r, pr, form, fields, artifact, artifact0, debug, outcome, dexit>>
    /\ UNCHANGED batchVars

\* main, lines 342-360: jitter_sleep, the classification, the write
AfterPost ==
    /\ dpc = "posted"
    /\ jitters' = jitters + 1
    /\ IF ~LooksLikeXmlExport(pr)
       THEN /\ debug' = debug \cup {"post_export_notxml"}
            /\ Exit(4, "FormatMismatch")
            /\ UNCHANGED artifact
       ELSE /\ artifact' = pr.body
            /\ Exit(0, "Success")
            /\ UNCHANGED debug
    /\ UNCHANGED <<dargs, method, attempt, reqlog, backoffs, r, pr, formVars, artifact0>>
    /\ UNCHANGED batchVars

\* dw-batch-export.py main, lines 112-126: run(cmd) starts the exporter for
\* the month, with --cookie-file and no --cookie-header
RunExporter ==
    /\ bpc = "loop"
    /\ dpc = "idle"
    /\ InRange(cur, range)
    /\ ~ShouldSkip(outfiles, cur)
    /\ dpc' = "start"
    /\ dargs' = [dargs EXCEPT !.year = cur[1], !.month = cur[2]]
    /\ artifact' = "absent"
    /\ artifact0' = "absent"
    /\ UNCHANGED <<requestVars, r, pr, formVars, debug, outcome, dexit>>
    /\ UNCHANGED batchVars

\* dw-batch-export.py main, lines 126-165: run(cmd) returns with the
\* exporter's exit code; outfile.exists() sees what the exporter wrote; the
\* exporter process is gone, its files stay
ExporterReturns(ts) ==
    /\ bpc = "loop"
    /\ dpc = "exit"
    /\ MonthOutcome([rc |-> dexit, wrote |-> artifact # "absent", why |-> outcome], ts)
    /\ dpc' = "idle"
    /\ method' = "GET"
    /\ attempt' = 1
    /\ reqlog' = <<>>
    /\ backoffs' = <<>>
    /\ jitters' = 0
    /\ r' = NoResponse
    /\ pr' = NoResponse
    /\ form' = NoForm
    /\ payload' = EmptyPayload
    /\ prePayload' = EmptyPayload
    /\ fields' = <<"year", "month">>
    /\ changed' = FALSE
    /\ outcome' = "running"
    /\ dexit' = -1
    /\ UNCHANGED <<dargs, artifact, artifact0, debug>>

\* the exporter is not run
ExportIdle ==
    /\ dpc = "idle"
    /\ dargs = [year |-> StartYear, month |-> 12, cookieFile |-> "ok", cookieHeader |-> FALSE]
    /\ method = "GET"
    /\ attempt = 1
    /\ reqlog = <<>>
    /\ backoffs = <<>>
    /\ jitters = 0
    /\ r = NoResponse
    /\ pr = NoResponse
    /\ form = NoForm
    /\ payload = EmptyPayload
    /\ prePayload = EmptyPayload
    /\ fields = <<"year", "month">>
    /\ changed = FALSE
    /\ artifact = "absent"
    /\ artifact0 = "absent"
    /\ debug = {}
    /\ outcome = "running"
    /\ dexit = -1

(***************************************************************************)
(* The inputs: what the server can answer and the documents it can serve.  *)
(***************************************************************************)
Opt(v, t) == [hasValue |-> TRUE, value |-> v, text |-> t, selected |-> FALSE]

OptSelected(v, t) == [hasValue |-> TRUE, value |-> v, text |-> t, selected |-> TRUE]

OptNoValue(t) == [hasValue |-> FALSE, value |-> "", text |-> t, selected |-> FALSE]

\* <option value="n">n</option> for n = lo..hi, zero-padded to w digits
NumericOptions(lo, hi, w) ==
    [i \in 1..(hi - lo + 1) |->
        Opt(ZeroPad(IntToStr(lo + i - 1), w), ZeroPad(IntToStr(lo + i - 1), w))]

Years20 == NumericOptions(2001, 2020, 4)
Years5 == NumericOptions(2001, 2005, 4)
Years4 == NumericOptions(2001, 2004, 4)
Months12 == NumericOptions(1, 12, 1)
Months4 == NumericOptions(1, 4, 1)
Padded5 == NumericOptions(1, 5, 4)
FormatOptions == <<Opt("1", "HTML"), Opt("2", "XML")>>
FormatLabelOnly == <<OptNoValue("HTML"), OptNoValue(" Xml ")>>
FormatByValue == <<Opt("html", "Page"), OptSelected("xml", "Structured")>>
PlainOptions == <<Opt("1", "HTML"), Opt("2", "CSV Export")>>

Sel(n, opts) == [name |-> n, options |-> opts]

SelectPool ==
    { Sel("year", Years20), Sel("mm", Months12), Sel("y", Years5),
      Sel("", Years5), Sel("yr", Years4), Sel("mon", Months4),
      Sel("range", Padded5), Sel("format", FormatOptions),
      Sel("fmt", FormatLabelOnly), Sel("enc", FormatByValue),
      Sel("", FormatOptions), Sel("kind", PlainOptions),
      Sel("year", Years5 \o <<Opt("xml", "XML")>>) }

Inp(n, t, v, c) == [name |-> n, type |-> t, value |-> v, checked |-> c]

InputPool ==
    { <<>>,
      <<Inp("authas", "hidden", "me", FALSE), Inp("go", "submit", "Export", FALSE),
        Inp("fmt", "radio", "html", TRUE), Inp("fmt", "radio", "xml", FALSE)>>,
      <<Inp("a", "radio", "html", FALSE), Inp("b", "radio", "XML-1", FALSE),
        Inp("a", "radio", "xml-2", TRUE)>>,
      <<Inp("fmt", "radio", "html", TRUE), Inp("", "radio", "xml", FALSE)>>,
      <<Inp("fmt", "radio", "html", TRUE), Inp("fmt", "radio", "text", FALSE),
        Inp("utf8", "Checkbox", "", TRUE)>> }

TextPool == {"Export your journal"}

Form(t, inps, sels, tas) ==
    [text |-> t, inputs |-> inps, selects |-> sels, textareas |-> tas]

RECURSIVE SeqsUpTo(_, _)
\* the sequences of at most n elements of S
SeqsUpTo(S, n) ==
    IF n = 0 THEN {<<>>}
    ELSE SeqsUpTo(S, n - 1) \cup
         { Append(q, x) : q \in { t \in SeqsUpTo(S, n - 1) : Len(t) = n - 1 }, x \in S }

\* the forms of the one-form documents
RichForms ==
    { Form(t, inps, sels, <<>>) :
        t \in TextPool, inps \in InputPool, sels \in SeqsUpTo(SelectPool, MaxSelects) }

\* the forms of the documents of several forms
PlainForms ==
    { Form("Search", <<Inp("q", "", "", FALSE)>>, <<>>, <<>>),
      Form("Export your journal", <<>>, <<>>, <<[name |-> "notes", text |-> "n/a"]>>),
      Form("", <<>>, <<Sel("year", Years5)>>, <<>>),
      Form("Pick a month", <<>>, <<Sel("month", Months12)>>, <<>>),
      Form("Log in", <<Inp("user", "text", "", FALSE)>>, <<Sel("y", Years5)>>, <<>>) }

\* the documents the form heuristics are applied to
FormDocs == SeqsUpTo(PlainForms, MaxForms) \cup { <<f>> : f \in RichForms }

ExportUrl == "https://www.dreamwidth.org/export"

FinalUrls ==
    { ExportUrl,
      "https://www.dreamwidth.org/login?returnto=/export",
      "https://www.dreamwidth.org/Login",
      "https://www.dreamwidth.org/?returnto=/export" }

\* the export pages served in SpecExport
ExportDocs ==
    { <<>>,
      <<Form("Export your journal", <<>>,
             <<Sel("year", Years5), Sel("format", FormatOptions)>>, <<>>)>>,
      <<Form("Search", <<Inp("q", "", "", FALSE)>>, <<>>, <<>>)>> }

ContentTypes == {"text/html; charset=utf-8", "text/XML"}

Bodies ==
    { "<?xml version='1.0'?><livejournal/>",
      " \n<LiveJournal><entry/>",
      "<html><body>Please log in</body></html>" }

TransientStatuses == {503}

\* an attempt that is retried: a retryable status, or RequestException
TransientAnswers ==
    { [status |-> st, url |-> ExportUrl, ct |-> "", body |-> "", doc |-> <<>>] :
        st \in TransientStatuses } \cup {RequestException}

GetAnswers ==
    { [status |-> st, url |-> u, ct |-> "text/html; charset=utf-8", body |-> "", doc |-> d] :
        st \in {200, 403, 404}, u \in FinalUrls, d \in ExportDocs }

PostAnswers ==
    { [status |-> st, url |-> ExportUrl, ct |-> c, body |-> b, doc |-> <<>>] :
        st \in {200, 404}, c \in ContentTypes, b \in Bodies }

\* what session.request can come back with
ServerAnswers(pc) ==
    TransientAnswers \cup (IF pc = "get" THEN GetAnswers ELSE PostAnswers)

ExportArgs ==
    { [year |-> StartYear, month |-> m, cookieFile |-> cf, cookieHeader |-> ch] :
        m \in {12, 13}, cf \in {"none", "missing", "nodomain", "ok"}, ch \in BOOLEAN }

(***************************************************************************)
(* The specifications.                                                     *)
(***************************************************************************)
\* the batch driver
Init == BatchInit /\ ExportIdle

Next == BatchNext

Spec == Init /\ [][Next]_vars

\* runs of the batch driver one after the other over one output directory,
\* empty before the first
RerunRanges ==
    { rg \in BatchRanges :
        /\ rg.start = <<StartYear, 12>>
        /\ MonthIndex(rg.end) - MonthIndex(rg.start) < MaxRerunSpan }

RerunInit ==
    /\ BatchInit
    /\ range \in RerunRanges
    /\ outfiles = {}
    /\ ExportIdle

RerunNext == BatchNext \/ Rerun

SpecRerun == RerunInit /\ [][RerunNext]_vars

\* record_failure applied to years of fewer and of more than four digits,
\* every month, and exit codes of one to three characters, a signal's among them
LedgerYears == {5, 999, StartYear, 12345}

LedgerExitCodes == {-9, 0, 1, 3, 4, 255}

LedgerClock == {"2026-01-01T00:00:00Z", "1999-12-31T23:59:59Z"}

LedgerInit ==
    /\ bpc = "record"
    /\ cur \in LedgerYears \X (1..MonthsPerYear)
    /\ range = [start |-> cur, end |-> cur]
    /\ failures \in {0, 1}
    /\ outfiles = {}
    /\ ledger = <<>>
    /\ bexit = -1
    /\ visited = <<>>
    /\ calls = <<>>
    /\ pauses = <<>>
    /\ failing \in { [rc |-> c, wrote |-> FALSE, why |-> "Exit"] : c \in LedgerExitCodes }
    /\ runs = 1
    /\ outfiles0 = {}
    /\ ledger0 = <<>>
    /\ written = <<>>
    /\ ExportIdle

LedgerNext == \E ts \in LedgerClock : RecordFailure(ts)

SpecLedger == LedgerInit /\ [][LedgerNext]_vars

\* the batch driver with the exporter it runs
PipelineRanges ==
    { rg \in BatchRanges :
        /\ rg.start = <<StartYear, 12>>
        /\ LeqYM(rg.start, rg.end)
        /\ MonthIndex(rg.end) - MonthIndex(rg.start) < MaxPipelineSpan }

\* the answers of the server in those runs: a transient failure, the export
\* page or the login page for the GET, the export or a page for the POST
PipelineAnswers(pc) ==
    { a \in ServerAnswers(pc) :
        \/ a \in TransientAnswers
        \/ /\ a.status = 200
           /\ a.url \in {ExportUrl, "https://www.dreamwidth.org/login?returnto=/export"}
           /\ a.ct = "text/html; charset=utf-8"
           /\ Len(a.doc) = 1 => Len(a.doc[1].selects) > 0
           /\ pc = "get" => Len(a.doc) = 1
           /\ a.body # " \n<LiveJournal><entry/>" }

PipelineInit ==
    /\ range \in PipelineRanges
    /\ cur = range.start
    /\ bpc = "loop"
    /\ failures = 0
    /\ outfiles \in ExistingSets(range)
    /\ ledger = <<>>
    /\ bexit = -1
    /\ visited = <<>>
    /\ calls = <<>>
    /\ pauses = <<>>
    /\ failing = [rc |-> 3, wrote |-> FALSE, why |-> "NotAuthenticated"]
    /\ runs = 1
    /\ outfiles0 = outfiles
    /\ ledger0 = <<>>
    /\ written = <<>>
    /\ dpc = "idle"
    /\ dargs \in { [year |-> StartYear, month |-> 12, cookieFile |-> cf,
                     cookieHeader |-> FALSE] : cf \in {"ok", "missing"} }
    /\ method = "GET"
    /\ attempt = 1
    /\ reqlog = <<>>
    /\ backoffs = <<>>
    /\ jitters = 0
    /\ r = NoResponse
    /\ pr = NoResponse
    /\ form = NoForm
    /\ payload = EmptyPayload
    /\ prePayload = EmptyPayload
    /\ fields = <<"year", "month">>
    /\ changed = FALSE
    /\ artifact = "absent"
    /\ artifact0 = "absent"
    /\ debug = {}
    /\ outcome = "running"
    /\ dexit = -1

PipelineNext ==
    \/ SkipMonth
    \/ RunExporter
    \/ Bootstrap
    \/ \E resp \in PipelineAnswers(dpc) : RequestAttempt(resp)
    \/ RequestExhausted
    \/ AfterGet
    \/ ChooseForm
    \/ BuildPayload
    \/ GuessFields
    \/ OverrideYearMonth
    \/ ForceXml
    \/ AfterPost
    \/ \E ts \in Timestamps : ExporterReturns(ts)
    \/ FinishBatch

SpecPipeline == PipelineInit /\ [][PipelineNext]_vars

\* one run of the exporter
ExportInit ==
    /\ BatchIdle
    /\ dpc = "start"
    /\ dargs \in ExportArgs
    /\ method = "GET"
    /\ attempt = 1
    /\ reqlog = <<>>
    /\ backoffs = <<>>
    /\ jitters = 0
    /\ r = NoResponse
    /\ pr = NoResponse
    /\ form = NoForm
    /\ payload = EmptyPayload
    /\ prePayload = EmptyPayload
    /\ fields = <<"year", "month">>
    /\ changed = FALSE
    /\ artifact0 \in {"absent", "<?xml version='1.0'?><old/>"}
    /\ artifact = artifact0
    /\ debug = {}
    /\ outcome = "running"
    /\ dexit = -1

ExportNext ==
    \/ Bootstrap
    \/ \E resp \in ServerAnswers(dpc) : RequestAttempt(resp)
    \/ RequestExhausted
    \/ AfterGet
    \/ ChooseForm
    \/ BuildPayload
    \/ GuessFields
    \/ OverrideYearMonth
    \/ ForceXml
    \/ AfterPost

SpecExport == ExportInit /\ [][ExportNext]_vars

\* the form heuristics, from the export page on
FormInit ==
    /\ BatchIdle
    /\ dpc = "parse"
    /\ dargs = [year |-> StartYear, month |-> 12, cookieFile |-> "ok", cookieHeader |-> FALSE]
    /\ method = "GET"
    /\ attempt = 1
    /\ reqlog = <<>>
    /\ backoffs = <<>>
    /\ jitters = 1
    /\ r \in { [status |-> 200, url |-> ExportUrl, ct |-> "text/html; charset=utf-8",
                body |-> "", doc |-> d] : d \in FormDocs }
    /\ pr = NoResponse
    /\ form = NoForm
    /\ payload = EmptyPayload
    /\ prePayload = EmptyPayload
    /\ fields = <<"year", "month">>
    /\ changed = FALSE
    /\ artifact = "absent"
    /\ artifact0 = "absent"
    /\ debug = {}
    /\ outcome = "running"
    /\ dexit = -1

FormNext ==
    \/ ChooseForm
    \/ BuildPayload
    \/ GuessFields
    \/ OverrideYearMonth
    \/ ForceXml

SpecForm == FormInit /\ [][FormNext]_vars

(***************************************************************************)
(* Claims about the batch driver (checked under Spec).                     *)
(***************************************************************************)
RECURSIVE TrailingFailures(_)
\* the number of failed exports since the last successful one
TrailingFailures(cs) ==
    IF Len(cs) = 0 \/ cs[Len(cs)].ok THEN 0
    ELSE 1 + TrailingFailures(SubSeq(cs, 1, Len(cs) - 1))

\* C1: the run is aborted exactly when 5 exports have failed with no success
\* between them; the counter is the number of failures since the last success
\* (0 right after a success), and no export follows the 5th consecutive failure.
C1_CircuitBreaker ==
    /\ failures = TrailingFailures(calls)
    /\ TrailingFailures(calls) <= FailureThreshold
    /\ (bpc = "aborted") <=> (TrailingFailures(calls) = FailureThreshold)
    /\ (Len(calls) > 0 /\ calls[Len(calls)].ok) => failures = 0
    /\ bpc = "aborted" => /\ bexit = 3
                          /\ calls[Len(calls)].ym = cur
                          /\ visited[Len(visited)] = cur

\* C1 witness: 4 failures, 1 success, 5 failures: aborted at the 10th export
C1_Witness ==
    /\ bpc = "aborted"
    /\ Len(calls) = 10
    /\ calls[5].ok
    /\ \A i \in (1..10) \ {5} : ~calls[i].ok

\* C2: the months of the closed range are visited in strictly ascending
\* (year, month) order, each at most once and without gaps, all of them when
\* the run completes, and the exporter is never invoked for a month whose
\* artifact exists when the month is visited.
C2_AscendingNoRevisit ==
    LET R == RangeMonths(range)
        V == { visited[i] : i \in 1..Len(visited) }
    IN /\ \A i \in 1..(Len(visited) - 1) : LtYM(visited[i], visited[i + 1])
       /\ Cardinality(V) = Len(visited)
       /\ V \subseteq R
       /\ \A ym \in R \ V : \A v \in V : LtYM(v, ym)
       /\ bpc = "done" => V = R
       /\ \A k \in 1..Len(calls) : ~calls[k].existed /\ calls[k].ym \in V
       /\ \A k \in 1..(Len(calls) - 1) : LtYM(calls[k].ym, calls[k + 1].ym)

\* C2 witness: a completed run across the year boundary that skipped a month
C2_Witness ==
    /\ bpc = "done"
    /\ Len(visited) >= 3
    /\ visited[1] = <<StartYear, 12>>
    /\ visited[2] = <<StartYear + 1, 1>>
    /\ \E i \in 1..Len(visited) : \A k \in 1..Len(calls) : calls[k].ym # visited[i]
    /\ Len(calls) >= 1

(***************************************************************************)
(* Claims about request_with_retries and main of the exporter (checked     *)
(* under SpecExport).                                                      *)
(***************************************************************************)
\* what request_with_retries returned to main, for the request in progress
Returned == IF method = "GET" THEN r ELSE pr

All503(log) == \A i \in 1..Len(log) : log[i].status = 503

\* C3: against an endpoint that answers 503 on every attempt the request is
\* attempted exactly max_retries times and then fails with the RuntimeError
\* (TransportExhausted), never returning; against 503, 503, 200 the 200
\* response of the 3rd attempt is returned and no 4th attempt is made.
C3_RetriesThenExhausted ==
    /\ Len(reqlog) <= MaxRetries
    /\ outcome = "TransportExhausted" =>
          /\ Len(reqlog) = MaxRetries
          /\ \A i \in 1..Len(reqlog) : reqlog[i].status \in {0, 429, 500, 502, 503, 504}
          /\ dexit = 1
    /\ (Len(reqlog) > 0 /\ All503(reqlog)) =>
          /\ dpc \in {"get", "post", "exit"}
          /\ dpc = "exit" => outcome = "TransportExhausted"
          /\ Returned = NoResponse
    /\ ( /\ Len(reqlog) >= 3
         /\ reqlog[1].status = 503
         /\ reqlog[2].status = 503
         /\ reqlog[3].status = 200 ) =>
          /\ Len(reqlog) = 3
          /\ Returned = reqlog[3]
          /\ dpc \notin {"get", "post"}
          /\ outcome # "TransportExhausted"

\* C3 witness: the POST answered 503 on each of its max_retries attempts
C3_Witness ==
    /\ outcome = "TransportExhausted"
    /\ method = "POST"
    /\ Len(reqlog) = MaxRetries
    /\ All503(reqlog)

\* C4: a response whose status is not in {429, 500, 502, 503, 504} is returned
\* from the attempt that received it: it is the last attempt of the request,
\* no backoff sleep follows it, and it is what main gets, whatever its body.
C4_NonRetryableReturnsAtOnce ==
    \A i \in 1..Len(reqlog) :
        reqlog[i].status \notin {0, 429, 500, 502, 503, 504} =>
            /\ i = Len(reqlog)
            /\ Returned = reqlog[i]
            /\ \A k \in 1..Len(backoffs) : backoffs[k] # i
            /\ Len(backoffs) = i - 1
            /\ dpc \notin {"get", "post"}
            /\ outcome # "TransportExhausted"

\* C4 witness: a 404 page with a form in it, returned by the 2nd attempt
C4_Witness ==
    /\ dpc = "got"
    /\ Len(reqlog) = 2
    /\ reqlog[2].status = 404
    /\ Len(reqlog[2].doc) > 0
    /\ r = reqlog[2]

\* the authentication check has been made on the GET response
AuthChecked ==
    /\ r # NoResponse
    /\ dpc \in {"parse", "build", "guess", "override", "force", "post", "posted", "exit"}

\* the check answered "not authenticated"
NotAuthenticatedTaken == "get_export_redirect" \in debug

\* C9 as stated: the authentication check is false when the final URL contains
\* "login" and true for every other final URL, whatever the status code.
C9_LoginOnly ==
    AuthChecked => (NotAuthenticatedTaken <=> Contains("login", Lower(r.url)))

\* C9 as amended: the authentication check is false when the final URL
\* contains "login" (in any letter case) or the marker "returnto=/export",
\* and true for every other final URL, whatever the status code.
C9_LoginOrReturnTo ==
    AuthChecked =>
        /\ NotAuthenticatedTaken <=>
              (Contains("login", Lower(r.url)) \/ Contains("returnto=/export", r.url))
        /\ NotAuthenticatedTaken <=> outcome = "NotAuthenticated"
        /\ NotAuthenticatedTaken => dexit = 3

\* C9 witness: a 200 answer whose final URL has the marker but not "login"
C9_Witness ==
    /\ AuthChecked
    /\ NotAuthenticatedTaken
    /\ r.status = 200
    /\ ~Contains("login", Lower(r.url))

\* every stage of the run was passed
PassedEveryStage ==
    /\ r # NoResponse
    /\ ~Contains("login", Lower(r.url))
    /\ ~Contains("returnto=/export", r.url)
    /\ r.status = 200
    /\ Len(r.doc) > 0
    /\ pr # NoResponse
    /\ LooksLikeXmlExport(pr)

\* C10: a run of the exporter writes the month's artifact if and only if the
\* GET returned an authenticated response with status 200, a form was found,
\* the POST returned and its response classifies as a structured export; in
\* every other outcome the output path keeps the content it had and the exit
\* code is not 0.
C10_WriteIffEveryStage ==
    /\ dpc # "exit" => artifact = artifact0 /\ outcome = "running" /\ dexit = -1
    /\ dpc = "exit" =>
          /\ outcome = "Success" <=> PassedEveryStage
          /\ outcome = "Success" => artifact = pr.body /\ dexit = 0
          /\ outcome # "Success" =>
                /\ artifact = artifact0
                /\ dexit # 0
                /\ outcome \in {"ConfigurationError", "CookieError", "NotAuthenticated",
                                "BadStatus", "ParseFailure", "TransportExhausted",
                                "FormatMismatch"}

\* C10 witness: a successful run that replaced an older artifact
C10_Witness ==
    /\ dpc = "exit"
    /\ outcome = "Success"
    /\ artifact0 # "absent"
    /\ artifact # artifact0
    /\ artifact = pr.body

(***************************************************************************)
(* Claims about the form heuristics (checked under SpecForm).              *)
(***************************************************************************)
\* the least element of a non-empty set of numbers
Least(S) == CHOOSE x \in S : \A y \in S : x <= y

\* the forms of the export page that have a select named year or month
FormsWithYearMonth ==
    { i \in 1..Len(r.doc) :
        \E k \in 1..Len(r.doc[i].selects) : r.doc[i].selects[k].name \in {"year", "month"} }

\* the forms of the export page whose text contains "export" in any letter case
FormsWithExportText ==
    { i \in 1..Len(r.doc) : Contains("export", Lower(FormText(r.doc[i]))) }

\* C5: choose_export_form applies a strict priority over all forms: the first
\* form with a select named year or month if there is one, even when an
\* earlier form has "export" in its text; else the first form whose text
\* contains "export"; else the first form; with no form it raises.
C5_StrictPriority ==
    dpc # "parse" =>
        IF Len(r.doc) = 0 THEN outcome = "ParseFailure"
        ELSE form = r.doc[IF FormsWithYearMonth # {} THEN Least(FormsWithYearMonth)
                          ELSE IF FormsWithExportText # {} THEN Least(FormsWithExportText)
                          ELSE 1]

\* the options of a select that read as a four-digit number
YearLikeOptions(sel) ==
    { j \in 1..Len(sel.options) :
        /\ IsDigit(Strip(sel.options[j].text))
        /\ Len(Strip(sel.options[j].text)) = 4 }

\* the options of a select that read as a number in 1..12
MonthLikeOptions(sel) ==
    { j \in 1..Len(sel.options) :
        /\ IsDigit(Strip(sel.options[j].text))
        /\ ToInt(Strip(sel.options[j].text)) \in 1..12 }

\* the named selects of the chosen form that qualify as the year field
YearSelects ==
    { i \in 1..Len(form.selects) :
        form.selects[i].name # "" /\ Cardinality(YearLikeOptions(form.selects[i])) >= 5 }

\* the named selects of the chosen form that qualify as the month field
MonthSelects ==
    { i \in 1..Len(form.selects) :
        form.selects[i].name # "" /\ Cardinality(MonthLikeOptions(form.selects[i])) >= 5 }

\* C6: the year field is the name of a select with at least 5 four-digit
\* numeric options and the month field the name of a select with at least 5
\* numeric options in 1..12; a role no (named) select qualifies for gets the
\* literal name "year", respectively "month".
C6_GuessedFieldNames ==
    dpc \in {"override", "force", "post"} =>
        /\ IF YearSelects = {} THEN fields[1] = "year"
           ELSE \E i \in YearSelects : fields[1] = form.selects[i].name
        /\ IF MonthSelects = {} THEN fields[2] = "month"
           ELSE \E i \in MonthSelects : fields[2] = form.selects[i].name

\* C6 witness: a select named "y" with the options 2001..2005 beside a select
\* with non-numeric options only: year field "y", month field the literal
C6_Witness ==
    /\ dpc = "override"
    /\ fields = <<"y", "month">>
    /\ Len(form.selects) = 2
    /\ form.selects[1] = Sel("y", Years5)
    /\ form.selects[2] = Sel("format", FormatOptions)
    /\ MonthSelects = {}

\* an option whose value or label contains "xml" in any letter case
XmlLike(o) == Contains("xml", Lower(o.value)) \/ Contains("xml", Lower(Strip(o.text)))

\* the named selects of the chosen form that have an xml-like option
XmlSelects ==
    { i \in 1..Len(form.selects) :
        /\ form.selects[i].name # ""
        /\ \E j \in 1..Len(form.selects[i].options) : XmlLike(form.selects[i].options[j]) }

\* C7: when a named select has an xml-like option, force_output_format_xml
\* sets exactly one payload field: that of the first such select, to the value
\* of its first xml-like option (to the label when the value is empty); every
\* other entry is as before, later selects and options and the radio inputs
\* play no part.
C7_FirstXmlOptionDecides ==
    (dpc = "post" /\ XmlSelects # {}) =>
        LET sel == form.selects[Least(XmlSelects)]
            opt == sel.options[Least({ j \in 1..Len(sel.options) : XmlLike(sel.options[j]) })]
        IN /\ changed
           /\ DOMAIN payload = (DOMAIN prePayload) \cup {sel.name}
           /\ payload[sel.name] = IF opt.value # "" THEN opt.value ELSE Strip(opt.text)
           /\ \A k \in (DOMAIN prePayload) \ {sel.name} : payload[k] = prePayload[k]

\* C7 witness: options [("1","HTML"),("2","XML")] set the field to "2", a
\* later select and a radio group with xml-like values left aside
C7_Witness ==
    /\ dpc = "post"
    /\ Len(form.selects) = 2
    /\ form.selects[1] = Sel("format", FormatOptions)
    /\ form.selects[2] = Sel("enc", FormatByValue)
    /\ \E k \in 1..Len(form.inputs) :
          form.inputs[k].type = "radio" /\ Contains("xml", Lower(form.inputs[k].value))
    /\ prePayload["format"] = "1"
    /\ payload["format"] = "2"
    /\ payload["enc"] = prePayload["enc"]

\* no select option and no radio value of the chosen form is xml-like
NothingXmlLike ==
    /\ \A i \in 1..Len(form.selects) :
          \A j \in 1..Len(form.selects[i].options) : ~XmlLike(form.selects[i].options[j])
    /\ \A k \in 1..Len(form.inputs) :
          form.inputs[k].type = "radio" => ~Contains("xml", Lower(form.inputs[k].value))

\* C8: when no select option and no radio value contains "xml",
\* force_output_format_xml leaves the payload as it was, returns False and
\* raises nothing: the run goes on to the POST.
C8_NoXmlLeavesPayload ==
    (dpc \in {"post", "exit"} /\ outcome # "ParseFailure" /\ NothingXmlLike) =>
        /\ payload = prePayload
        /\ ~changed
        /\ dpc = "post"
        /\ outcome = "running"
        /\ dexit = -1

\* C8 witness: a form with a select and radio inputs, none of them xml-like
C8_Witness ==
    /\ dpc = "post"
    /\ NothingXmlLike
    /\ Len(form.selects) >= 1
    /\ \E k \in 1..Len(form.inputs) : form.inputs[k].type = "radio"
    /\ ~changed
    /\ payload = prePayload
    /\ DOMAIN payload # {}

(***************************************************************************)
(* Claims about the failure ledger (checked under SpecRerun, SpecLedger).  *)
(***************************************************************************)
RECURSIVE SplitOn(_, _)
\* the fields of s between the occurrences of the one-character delimiter d
SplitOn(s, d) ==
    IF ~Contains(d, s) THEN <<s>>
    ELSE LET i == CHOOSE k \in 1..Len(s) :
                      CharAt(s, k) = d /\ \A j \in 1..(k - 1) : CharAt(s, j) # d
         IN <<SubSeq(s, 1, i - 1)>> \o SplitOn(SubSeq(s, i + 1, Len(s)), d)

\* the integer a field stands for: blanks and the line end around it dropped,
\* an optional minus sign, leading zeros allowed
IntOfStr(s) ==
    LET t == Strip(s)
    IN IF Len(t) > 0 /\ CharAt(t, 1) = "-" THEN 0 - ToInt(SubSeq(t, 2, Len(t)))
       ELSE ToInt(t)

\* a ledger line read back by splitting it on the comma
ReadRecord(line) ==
    LET f == SplitOn(line, ",")
    IN IF Len(f) # 4 THEN [n |-> Len(f)]
       ELSE [n |-> 4, year |-> IntOfStr(f[1]), month |-> IntOfStr(f[2]),
             timestamp |-> f[3], reason |-> IntOfStr(f[4])]

\* the record of a failed invocation
RecordOf(c) ==
    [n |-> 4, year |-> c.ym[1], month |-> c.ym[2], timestamp |-> c.ts, reason |-> c.rc]

IsFailedCall(c) == ~c.ok

FailedCalls(cs) == SelectSeq(cs, IsFailedCall)

\* exactly one line end, at the end
NewlineTerminated(line) ==
    /\ Len(line) > 0
    /\ \A i \in 1..Len(line) : (CharAt(line, i) = "\n") <=> (i = Len(line))

\* C11: at every point of every run the ledger is what it was when the run
\* started followed by one newline-terminated record per failed export so
\* far, in order, the failure that trips the circuit breaker included;
\* successes and skips add none; a step leaves the ledger as it is or appends
\* one record, so no record is ever rewritten or removed.
C11_OneRecordPerFailure ==
    /\ [](LET F == FailedCalls(calls)
          IN /\ Len(ledger) = Len(ledger0) + Len(F)
             /\ SubSeq(ledger, 1, Len(ledger0)) = ledger0
             /\ \A i \in 1..Len(F) :
                   /\ NewlineTerminated(ledger[Len(ledger0) + i])
                   /\ ReadRecord(ledger[Len(ledger0) + i]) = RecordOf(F[i]))
    /\ [][\/ ledger' = ledger
          \/ /\ Len(ledger') = Len(ledger) + 1
             /\ SubSeq(ledger', 1, Len(ledger)) = ledger]_vars

\* C11 witness: a second run, over a ledger that has records, skipped a month
\* and then tripped the circuit breaker: five records were added
C11_Witness ==
    /\ runs = 2
    /\ bpc = "aborted"
    /\ Len(ledger0) >= 1
    /\ Len(visited) > Len(calls)
    /\ Len(ledger) = Len(ledger0) + FailureThreshold
    /\ SubSeq(ledger, 1, Len(ledger0)) = ledger0

\* C12: every line record_failure writes splits on the comma into exactly
\* four fields, which give back the year, the month, the timestamp and the
\* exit code it was called with.
C12_LedgerRoundTrip ==
    bpc = "recorded" =>
        /\ Len(ledger) = 1
        /\ Len(SplitOn(ledger[1], ",")) = 4
        /\ ReadRecord(ledger[1]).year = cur[1]
        /\ ReadRecord(ledger[1]).month = cur[2]
        /\ ReadRecord(ledger[1]).timestamp = calls[1].ts
        /\ ReadRecord(ledger[1]).reason = failing.rc

\* C12 witness: a record of a year below 1000 and a negative exit code
C12_Witness ==
    /\ bpc = "recorded"
    /\ cur = <<5, 1>>
    /\ failing.rc = -9
    /\ ledger = <<"0005,01,1999-12-31T23:59:59Z,-9\n">>

(***************************************************************************)
(* More claims about the batch driver (checked under Spec).                *)
(***************************************************************************)
\* five exports in a row have failed at some point of the run
Tripped ==
    \E k \in 1..Len(calls) : TrailingFailures(SubSeq(calls, 1, k)) >= FailureThreshold

\* C13: the batch process exits with 0 exactly when it has visited every
\* month of the range and no five exports failed in a row, whatever the number
\* of failed months; its only other exit code is 3, given at the fifth
\* consecutive failure.
C13_ExitCode ==
    LET R == RangeMonths(range)
        V == { visited[i] : i \in 1..Len(visited) }
    IN /\ bexit \in {-1, 0, 3}
       /\ (bexit = -1) <=> (bpc = "loop")
       /\ (bexit = 0) <=> (bpc # "loop" /\ V = R /\ ~Tripped)
       /\ (bexit = 3) <=> (bpc # "loop" /\ Tripped)
       /\ bexit = 3 => TrailingFailures(calls) = FailureThreshold

\* C13 witness: exit code 0 after a run in which eight months failed
C13_Witness ==
    /\ bexit = 0
    /\ Len(FailedCalls(calls)) = 8
    /\ Len(calls) = 10

\* a pass of the loop for a month whose artifact exists
SkipStep == bpc = "loop" /\ cur \in outfiles /\ visited' # visited

\* C20: a pass of the loop for a month whose artifact exists changes nothing
\* but the position in the range: the counter, the ledger, the pauses taken,
\* the output directory and the exporter invocations stay as they were; hence
\* the counter is the number of failed exports since the last successful
\* export, skipped months between them or not.
C20_SkipChangesNothing ==
    /\ [][SkipStep => /\ failures' = failures
                      /\ ledger' = ledger
                      /\ pauses' = pauses
                      /\ outfiles' = outfiles
                      /\ calls' = calls
                      /\ bpc' = bpc
                      /\ visited' = Append(visited, cur)]_vars
    /\ [](failures = TrailingFailures(calls) /\ Len(pauses) = Len(calls))

\* C20 witness: the circuit breaker tripped on five failures that have a
\* skipped month between them
C20_Witness ==
    /\ bpc = "aborted"
    /\ failures = FailureThreshold
    /\ Len(calls) = FailureThreshold
    /\ Len(visited) = FailureThreshold + 1
    /\ calls[1].ym = visited[1]
    /\ \E i \in 2..FailureThreshold : visited[i] \in outfiles0

(***************************************************************************)
(* Claims about the batch driver and the exporter it runs (checked under   *)
(* SpecPipeline).                                                          *)
(***************************************************************************)
\* C15: once the exporter has failed for a month because the cookie file
\* could not be loaded, the batch run starts the exporter for no later month.
C15_ConfigErrorStopsBatch ==
    \A k \in 1..Len(calls) :
        calls[k].why = "CookieError" => (k = Len(calls) /\ dpc = "idle")

\* an attempt that request_with_retries does not return: one of the five
\* statuses, or a transport exception
IsTransient(resp) == resp.status \in {0, 429, 500, 502, 503, 504}

\* run(cmd) returns from an exporter that ended with TransportExhausted
ExhaustedReturn == dpc = "exit" /\ outcome = "TransportExhausted" /\ calls' # calls

\* C18: the exporter ends with TransportExhausted only after max_retries
\* attempts of one request that were all transient failures, and a transient
\* failure is the last attempt of a request only then; the batch driver
\* counts that run as one failed month: one record more in the ledger, the
\* counter one higher, and, the counter below 5, the loop goes on to the next
\* month.
C18_ExhaustionIsOneFailure ==
    /\ [](/\ outcome = "TransportExhausted" =>
                /\ Len(reqlog) = MaxRetries
                /\ \A i \in 1..Len(reqlog) : IsTransient(reqlog[i])
          /\ (dpc = "exit" /\ Len(reqlog) > 0 /\ IsTransient(reqlog[Len(reqlog)])) =>
                (outcome = "TransportExhausted" /\ dexit # 0)
          /\ \A k \in 1..Len(calls) :
                calls[k].why = "TransportExhausted" => ~calls[k].ok)
    /\ [][ExhaustedReturn =>
             /\ failures' = failures + 1
             /\ Len(ledger') = Len(ledger) + 1
             /\ outfiles' = outfiles
             /\ failures' < FailureThreshold =>
                   (bpc' = "loop" /\ bexit' = -1 /\ cur' = NextMonth(cur))]_vars

\* C18 witness: the GET of the first month exhausted its retries, the second
\* month was exported, the POST of the third month exhausted its retries
C18_Witness ==
    /\ Len(calls) = 2
    /\ calls[1].why = "TransportExhausted"
    /\ calls[2].ok
    /\ Len(ledger) = 1
    /\ dpc = "exit"
    /\ outcome = "TransportExhausted"
    /\ method = "POST"
    /\ cur = NextMonth(NextMonth(range.start))

(***************************************************************************)
(* More claims about the exporter (checked under SpecExport).              *)
(***************************************************************************)
\* the number of cookie sources on the command line
CookieSources(a) ==
    (IF a.cookieFile # "none" THEN 1 ELSE 0) + (IF a.cookieHeader THEN 1 ELSE 0)

\* C14: with no cookie source, and with both a cookie file and a cookie
\* header, the run ends in ConfigurationError and makes no HTTP request.
C14_ExactlyOneCookieSource ==
    (dpc # "start" /\ CookieSources(dargs) # 1) =>
        /\ outcome = "ConfigurationError"
        /\ dpc = "exit"
        /\ Len(reqlog) = 0

\* the request_with_retries call in progress is over and main has gone on, or
\* the process has ended
CallOver ==
    \/ dpc \in {"parse", "build", "guess", "override", "force"}
    \/ /\ dpc = "exit"
       /\ outcome \in {"NotAuthenticated", "BadStatus", "ParseFailure",
                        "TransportExhausted", "FormatMismatch", "Success"}

\* C17: one jitter_sleep follows each request_with_retries call, the GET and
\* the POST, however the call ended, TransportExhausted included.
C17_JitterAfterEveryCall == CallOver => jitters = 1

\* no attempt of the request in progress is to come
RequestOver == dpc \notin {"start", "get", "post"} \/ ~CanAttempt(attempt)

\* C19: every backoff sleep of a request is followed by another attempt of
\* that request: once the request is over, each attempt that was slept after
\* has a later attempt.
C19_BackoffOnlyBetweenAttempts ==
    RequestOver => \A i \in 1..Len(backoffs) : backoffs[i] < Len(reqlog)

(***************************************************************************)
(* Claims about repeated batch runs (checked under SpecRerun).             *)
(***************************************************************************)
\* C16: over all the runs on one output directory no month is written twice;
\* a run never invokes the exporter for a month whose artifact exists, and
\* the months it does invoke it for are, in ascending order, the months of
\* the range visited so far that had no artifact when the run started, the
\* first of them being the first unwritten month of the range; artifacts
\* stay.
C16_WrittenOnceAndResumed ==
    LET R == RangeMonths(range)
        V == { visited[i] : i \in 1..Len(visited) }
        W == { written[i] : i \in 1..Len(written) }
        A == { calls[k].ym : k \in 1..Len(calls) }
    IN /\ Cardinality(W) = Len(written)
       /\ outfiles = W
       /\ outfiles0 \subseteq outfiles
       /\ \A k \in 1..Len(calls) : ~calls[k].existed
       /\ A = V \ outfiles0
       /\ \A k \in 1..(Len(calls) - 1) : LtYM(calls[k].ym, calls[k + 1].ym)
       /\ Len(calls) > 0 =>
             /\ calls[1].ym \in R \ outfiles0
             /\ \A ym \in R \ outfiles0 : LeqYM(calls[1].ym, ym)
       /\ bpc = "done" => A = R \ outfiles0

\* C16 witness: the first run left the first month unwritten and wrote a
\* later one; the second run has started with the first month, written it,
\* and skipped the month written before
C16_Witness ==
    /\ runs = 2
    /\ Len(written) >= 2
    /\ range.start \notin outfiles0
    /\ outfiles0 # {}
    /\ written[Len(written)] = range.start
    /\ Len(calls) = 1
    /\ Len(visited) >= 2

(***************************************************************************)
(* More claims about the form heuristics (checked under SpecForm).         *)
(***************************************************************************)
\* C21: the payload handed to the POST has the requested year under the
\* inferred year field and the requested month under the inferred month
\* field; the two field names differ, and force_output_format_xml, which runs
\* after the override, has replaced neither value.
C21_PayloadCarriesRequestedMonth ==
    dpc = "post" =>
        /\ fields[1] # fields[2]
        /\ fields[1] \in DOMAIN payload
        /\ fields[2] \in DOMAIN payload
        /\ payload[fields[1]] = IntToStr(dargs.year)
        /\ payload[fields[2]] = IntToStr(dargs.month)
        /\ payload[fields[1]] = prePayload[fields[1]]
        /\ payload[fields[2]] = prePayload[fields[2]]

(***************************************************************************)
(* The success test of the batch driver (checked under Spec).              *)
(***************************************************************************)
\* the exporter exited with 0 and the month's artifact is in the directory
ExportedFine(c) == c.rc = 0 /\ c.ym \in outfiles

RECURSIVE TrailingNotFine(_)
\* the number of invocations at the end of cs that were not fine
TrailingNotFine(cs) ==
    IF Len(cs) = 0 \/ ExportedFine(cs[Len(cs)]) THEN 0
    ELSE 1 + TrailingNotFine(SubSeq(cs, 1, Len(cs) - 1))

\* an exporter invocation that exited with 0 and left no artifact
ZeroWithoutArtifact == calls' # calls /\ calls'[Len(calls')].rc = 0 /\ cur \notin outfiles'

\* C22: an exporter invocation is taken as a success (normal pause, counter
\* reset) exactly when it exited with 0 and the month's artifact exists after
\* it; every other invocation, exit code 0 without the artifact among them,
\* is taken as a failure: one ledger record, the counter one higher, a grumpy
\* pause.  So whenever an invocation resets the counter, the artifact of its
\* month exists.
C22_SuccessNeedsArtifact ==
    /\ [](/\ \A k \in 1..Len(calls) :
                pauses[k] = (IF ExportedFine(calls[k]) THEN "normal" ELSE "grumpy")
          /\ failures = TrailingNotFine(calls)
          /\ Len(ledger) = Cardinality({ k \in 1..Len(calls) : ~ExportedFine(calls[k]) }))
    /\ [][ZeroWithoutArtifact =>
             /\ failures' = failures + 1
             /\ Len(ledger') = Len(ledger) + 1
             /\ pauses' = Append(pauses, "grumpy")]_vars
    /\ [][(calls' # calls /\ failures' = 0) =>
             (cur \in outfiles' /\ calls'[Len(calls')].rc = 0)]_vars

\* C22 witness: after a success, five invocations in a row exited with 0 and
\* left no artifact; the circuit breaker tripped
C22_Witness ==
    /\ bpc = "aborted"
    /\ Len(calls) = FailureThreshold + 1
    /\ calls[1].ym \in outfiles
    /\ \A k \in 1..Len(calls) : calls[k].rc = 0
    /\ \A k \in 2..Len(calls) : calls[k].ym \notin outfiles
    /\ Len(ledger) = FailureThreshold

=============================================================================
